---- MODULE Spec2Model ----
(***************************************************************************)
(* State-machine model of MCPIntegrationService (src/unnamed/part_002):    *)
(* the WebSocket connections to the two MCP servers, the per-connection    *)
(* responseHandlers maps, the request/response correlation of callMCPTool  *)
(* and handleMCPMessage, the request timeouts and the reconnect timers.    *)
(*                                                                         *)
(* JavaScript runs every event handler to completion, and the promise      *)
(* continuations it triggers run as microtasks before the next event, so   *)
(* one action models one task of the event loop: a WebSocket event, a      *)
(* timer callback or a call made by the application.                       *)
(*                                                                         *)
(* The second part models the recording of VoiceChatNetwork                *)
(* (src/voice-mcp-client.js): startRecording, stopRecording and the events *)
(* of the microphone, the media recorder and the speech recognition, the   *)
(* current message with its translation, connectToFriend and               *)
(* sendVoiceMessage with its delayed clearMessage.                         *)
(*                                                                         *)
(* The third part models DeepLService (src/deepl-service.js) and           *)
(* ElevenLabsService (src/elevenlabs-service.js): initialize and the       *)
(* methods that send requests to the two APIs.                             *)
(***************************************************************************)
EXTENDS Integers, Sequences, FiniteSets, TLC

\* ---------------------------------------------------------------- bounds
MaxConns == 4        \* WebSocket objects created in one behaviour
MaxCalls == 2        \* callMCPTool invocations in one behaviour
MaxEvents == 2       \* window events dispatched in one behaviour
MaxDropped == 1      \* frames recorded as handled without any effect
MaxCloses == 1       \* closures asked for by the client in one behaviour
MaxStarts == 3       \* startRecording invocations that begin a recording
MaxMessages == 2     \* transcripts the speech recognition delivers
MaxVoiceTimers == 2  \* timers of VoiceChatNetwork armed at one time
MaxSent == 1         \* messages written to the database in one behaviour
MaxPending == 2      \* calls of one service object waiting for a response
MaxSize == 5         \* connections, calls, events, closures, recorded
                     \* frames and invocations of pingServers in one
                     \* behaviour

\* ------------------------------------------------------ program constants
RETRY_DELAY == 1000          \* MCPhonyConfig.MCP.RETRY_DELAY
RETRY_ATTEMPTS == 3          \* MCPhonyConfig.MCP.RETRY_ATTEMPTS
MCP_ENABLED == TRUE          \* MCPhonyConfig.MCP.ENABLED
REQUEST_TIMEOUT == 30000     \* literal delay of the setTimeout in callMCPTool
CLEAR_DELAY == 2000          \* delay of the setTimeout in sendVoiceMessage
TRANSLATE_DELAY == 1000      \* delay of the setTimeout in mockTranslate

\* The two servers the service connects to, in the order initialize() does.
Peers == {"elevenlabs", "deepl"}

\* Values generateRequestId() can return.  Math.random() is not checked for
\* repetition, so the same string can be returned twice; "" is what
\* Math.random() = 0 gives ("0".substr(2, 9)).
GeneratedIds == {"", "a", "b"}

\* The id of an inbound message: absent, or any value the server chooses.
NoId == "none"
MessageIds == GeneratedIds \cup {NoId}

\* JavaScript truthiness of parsedMessage.id
Truthy(id) == id \notin {NoId, ""}

\* Inbound frames: text that JSON.parse rejects, or an object with an
\* optional id, an optional error member and an optional method.
Garbage == [parsable |-> FALSE, id |-> NoId, error |-> FALSE, method |-> "none"]
Messages ==
    {Garbage} \cup
    [parsable : {TRUE}, id : MessageIds, error : BOOLEAN,
     method : {"none", "progress", "error", "other"}]

VARIABLES
    connections,     \* this.connections : serverName -> index in conns, 0 = no entry
    conns,           \* every connection object created by createMCPConnection
    calls,           \* every callMCPTool invocation and the state of its promise
    timers,          \* the browser's timer queue, earliest deadline first
    initPc,          \* where initialize() is: idle, elevenlabs, deepl, done, failed
    isInitialized,   \* this.isInitialized
    windowEvents,    \* CustomEvents handed to window.dispatchEvent
    failedAttempts,  \* per server: connection attempts failed since the last open
    dropped,         \* frames that were neither a response nor a known notification
    ping,            \* the invocation of pingServers: where it is and its results
    voice,           \* the VoiceChatNetwork object and the browser objects it uses
    services         \* the DeepLService and the ElevenLabsService object

mcpVars == <<connections, conns, calls, timers, initPc, isInitialized,
             windowEvents, failedAttempts, dropped, ping>>

vars == <<connections, conns, calls, timers, initPc, isInitialized,
          windowEvents, failedAttempts, dropped, ping, voice, services>>

\* What a behaviour has created so far and whether it may create more; a
\* recorded frame takes two units of the size.
Closes == Cardinality({c \in DOMAIN conns : conns[c].deliberate})
Pings == IF ping.pc = "idle" THEN 0 ELSE 1
Size == Len(conns) + Len(calls) + Len(windowEvents) + 2 * Len(dropped) + Closes
        + Pings
CanCreateConn == Len(conns) < MaxConns /\ Size < MaxSize
CanCreateCall == Len(calls) < MaxCalls /\ Size < MaxSize
CanCreateEvents(n) ==
    n = 0 \/ (Len(windowEvents) + n <= MaxEvents /\ Size + n <= MaxSize)

CanClose == Closes < MaxCloses /\ Size < MaxSize
CanRecordDropped(n) ==
    n = 0 \/ (Len(dropped) + n <= MaxDropped /\ Size + 2 * n <= MaxSize)

NoHandlers == [i \in GeneratedIds |-> 0]

\* connection.responseHandlers.has(id)
Has(h, id) == id \in DOMAIN h /\ h[id] # 0

\* createMCPConnection, lines 62-71: a new WebSocket and connection object.
\* ws is the readyState of the WebSocket.  sent logs what was handed to
\* ws.send; pendingAtClose records, when ws.onclose runs, the calls whose
\* promise was pending on this connection; deliberate tells that the client
\* itself asked for the closure (ws.close()).
NewConnection(p, origin) ==
    [peer |-> p, ws |-> "CONNECTING", isConnected |-> FALSE,
     responseHandlers |-> NoHandlers, promise |-> "pending",
     origin |-> origin, sent |-> << >>, pendingAtClose |-> {},
     deliberate |-> FALSE]

\* resolve/reject of the promise of call k: a settled promise ignores it.
Settle(cl, k, o) ==
    IF cl[k].outcome = "pending" THEN [cl EXCEPT ![k].outcome = o] ELSE cl

\* setTimeout: the new timer fires after every timer whose deadline cannot be
\* later (armed earlier with a delay that is not larger), and before or after
\* the others.  pos is the number of timers that fire before it.
TimerPositions(tq, delay) ==
    {pos \in 0..Len(tq) : \A i \in 1..Len(tq) : tq[i].delay <= delay => i <= pos}

InsertAt(tq, pos, t) ==
    SubSeq(tq, 1, pos) \o <<t>> \o SubSeq(tq, pos + 1, Len(tq))

\* Timers armed in one task with one delay fire one after the other.
InsertAll(tq, pos, ts) ==
    SubSeq(tq, 1, pos) \o ts \o SubSeq(tq, pos + 1, Len(tq))

\* scheduleReconnect: setTimeout(..., this.config.RETRY_DELAY).  from is the
\* connection whose failure or closure armed the timer, via the place that
\* called scheduleReconnect, attempt the number of connection attempts to the
\* server that have failed since its last successful open.
Min(a, b) == IF a <= b THEN a ELSE b

ReconnectTimerBackoff(p, from, via, n) ==
    [kind |-> "reconnect", call |-> 0, peer |-> p,
     delay |-> Min(RETRY_DELAY * 2^n, REQUEST_TIMEOUT),
     from |-> from, via |-> via, attempt |-> n]

ReconnectTimer(p, from, via, n) ==
    [kind |-> "reconnect", call |-> 0, peer |-> p, delay |-> RETRY_DELAY,
     from |-> from, via |-> via, attempt |-> n]

\* The calls of scheduleReconnect the failure or closure of connection c
\* makes, as the timers they arm: the catch of scheduleReconnect (line 361)
\* when the promise of a reconnection attempt is rejected, and ws.onclose
\* (line 92) always.  n is the number of consecutive failed attempts.
RetryTimersUpToLimit(p, c, n, viaCatch) ==
    IF n >= RETRY_ATTEMPTS THEN << >>
    ELSE IF viaCatch
    THEN <<ReconnectTimer(p, c, "catch", n), ReconnectTimer(p, c, "onclose", n)>>
    ELSE <<ReconnectTimer(p, c, "onclose", n)>>

RetryTimers(p, c, n, viaCatch) ==
    IF viaCatch
    THEN <<ReconnectTimer(p, c, "catch", n), ReconnectTimer(p, c, "onclose", n)>>
    ELSE <<ReconnectTimer(p, c, "onclose", n)>>

\* callMCPTool: setTimeout(..., 30000)
RequestTimer(k, p) ==
    [kind |-> "timeout", call |-> k, peer |-> p, delay |-> REQUEST_TIMEOUT,
     from |-> 0, via |-> "call", attempt |-> 0]

\* The constructor of VoiceChatNetwork, with the state of the browser
\* objects: app is where initializeApp() is; starts holds, for every
\* startRecording() that is waiting, what it waits for ("mic" is its own
\* getUserMedia, "analysis" the getUserMedia of voiceAnalyzer.startAnalysis);
\* recorders holds the state of every MediaRecorder created, the last one
\* being this.mediaRecorder; recognition is the state of this.recognition
\* ("none" is null, "ending" an aborted session whose end event is still to
\* come); started counts the recordings begun; lastCall tells which of
\* startRecording() and stopRecording() was called last and whether it
\* returned at its first line.  The ids are strings, "null" being null;
\* the texts of currentMessage are numbers: 0 is the empty string, m > 0 in
\* original is the m-th transcript and in translated its translation.
\* heard tells that the running recognition delivered its result; messages
\* counts the transcripts; timers holds the armed timers of mockTranslate
\* and sendVoiceMessage in the order they were armed; sent is the list of
\* the messages inserted into the database.
NewVoiceChatNetwork ==
    [app |-> "starting", isInitialized |-> FALSE, isRecording |-> FALSE,
     isAnalyzing |-> FALSE, starts |-> << >>, recorders |-> << >>,
     recognition |-> "none", started |-> 0, lastCall |-> "none",
     mcpAvailable |-> FALSE, currentUserId |-> "null",
     isConnected |-> FALSE, connectedFriendId |-> "null",
     currentMessage |-> [original |-> 0, translated |-> 0],
     heard |-> FALSE, messages |-> 0, timers |-> << >>, sent |-> << >>]

ServiceNames == {"DeepLService", "ElevenLabsService"}

\* The values of MCPhonyConfig.DEEPL_API_KEY and ELEVENLABS_API_KEY:
\* "" stands for every falsy value, "placeholder" for the value of
\* src/config.js ('your_deepl_api_key_here', 'your_elevenlabs_api_key_here').
ApiKeys == {"", "placeholder", "key"}

\* A service object: made tells that the constructor ran; pending holds the
\* calls that wait for the response of a fetch, requests the requests sent
\* so far, each with the value isInitialized had when it was sent; thrown
\* is the error of the last call that threw.
NoService ==
    [made |-> FALSE, apiKey |-> "", isInitialized |-> FALSE,
     pending |-> << >>, requests |-> {}, thrown |-> "none"]

TypeOK ==
    /\ connections \in [Peers -> 0..MaxConns]
    /\ Len(conns) <= MaxConns
    /\ Len(calls) <= MaxCalls
    /\ initPc \in {"idle", "elevenlabs", "deepl", "done", "failed"}
    /\ isInitialized \in BOOLEAN
    /\ Len(windowEvents) <= MaxEvents
    /\ failedAttempts \in [Peers -> 0..MaxConns]
    /\ Len(dropped) <= MaxDropped
    /\ ping.pc \in {"idle", "waiting", "done"}

\* constructor
Init ==
    /\ connections = [p \in Peers |-> 0]
    /\ conns = << >>
    /\ calls = << >>
    /\ timers = << >>
    /\ initPc = "idle"
    /\ isInitialized = FALSE
    /\ windowEvents = << >>
    /\ failedAttempts = [p \in Peers |-> 0]
    /\ dropped = << >>
    /\ ping = [pc |-> "idle", at |-> 0, call |-> 0,
               results |-> [p \in Peers |-> "none"]]
    /\ voice = NewVoiceChatNetwork
    /\ services = [s \in ServiceNames |-> NoService]

\* initialize() up to its first await: connectToElevenLabsMCP() opens the
\* WebSocket of the first server.
Initialize ==
    /\ UNCHANGED <<voice, services>>
    /\ initPc = "idle"
    /\ CanCreateConn
    /\ conns' = Append(conns, NewConnection("elevenlabs", "initial"))
    /\ initPc' = "elevenlabs"
    /\ UNCHANGED <<connections, calls, timers, isInitialized, windowEvents,
                   failedAttempts, dropped, ping>>

\* callMCPTool, line 156: !connection || !connection.isConnected
NotConnectedNoEntryOnly(p) ==
    connections[p] = 0

NotConnected(p) ==
    connections[p] = 0 \/ ~conns[connections[p]].isConnected

\* handleMCPMessage, line 121: this.connections.get(serverName), the
\* connection whose pending entries a frame from server p is matched against.
ConnectionOfFirstServer(p) == connections["elevenlabs"]

ConnectionOf(p) == connections[p]

\* handleMCPMessage, line 126:
\* parsedMessage.id && connection.responseHandlers.has(parsedMessage.id)
ResponseMatches(h, id) == Truthy(id) /\ Has(h, id)

\* handleMCPMessage, line 127: connection.responseHandlers.get(parsedMessage.id),
\* the call whose handler is stored under the id.
HandlerForOtherId(h, id) ==
    IF \E i \in DOMAIN h : i # id /\ h[i] # 0
    THEN h[CHOOSE i \in DOMAIN h : i # id /\ h[i] # 0]
    ELSE h[id]

HandlerFor(h, id) == h[id]

\* callMCPTool, line 184: connection.responseHandlers.has(requestId)
TimeoutApplies(h, id) == Has(h, id)

\* The response handler of callMCPTool, lines 172-178.
ResponseOutcomeIgnoresError(m) == "result"

ResponseOutcome(m) == IF m.error THEN "remoteError" ELSE "result"

\* handleMCPNotification with updateProgress / handleServerError /
\* dispatchEvent: the window events a notification produces.
NotificationEventsUnknownToo(p, m) ==
    IF m.method = "progress" THEN <<[type |-> "mcpProgress", server |-> p]>>
    ELSE IF m.method = "error" THEN <<[type |-> "mcpError", server |-> p]>>
    ELSE IF m.method = "other" THEN <<[type |-> "mcpError", server |-> p]>>
    ELSE << >>

NotificationEvents(p, m) ==
    IF m.method = "progress" THEN <<[type |-> "mcpProgress", server |-> p]>>
    ELSE IF m.method = "error" THEN <<[type |-> "mcpError", server |-> p]>>
    ELSE << >>

\* dispatchEvent: window.dispatchEvent(event) runs the listeners at once, so
\* the events reach the listeners in the order of the calls.
DispatchEventFirst(evs, new) == new \o evs

DispatchEvent(evs, new) == evs \o new

\* sendInitMessage: the initialize request as recorded in the log of sent
\* requests.  Its id is a fresh generateRequestId() value that the client
\* keeps nowhere (no response handler is registered for it).
InitMessage == [method |-> "initialize", call |-> 0, registered |-> FALSE]

\* The tools/call request of call k; registered tells whether a response
\* handler for its id was in responseHandlers (h) when ws.send was called.
ToolsCallMessage(k, h, id) ==
    [method |-> "tools/call", call |-> k, registered |-> Has(h, id)]

\* ws.onopen, line 75: this.sendInitMessage(connection)
SentOnOpenNothing(sent) == sent

SentOnOpen(sent) == Append(sent, InitMessage)

\* this.connections.set(serverName, connection), in connectToElevenLabsMCP,
\* connectToDeepLMCP and the then-branch of scheduleReconnect.
SetConnectionIfAbsent(reg, p, c) ==
    IF reg[p] = 0 THEN [reg EXCEPT ![p] = c] ELSE reg

SetConnection(reg, p, c) == [reg EXCEPT ![p] = c]

\* ws.onopen: mark connected, send the initialize request, resolve the
\* promise.  The continuation of the resolved promise registers the
\* connection; for the first server of initialize() it goes on to open the
\* WebSocket of the second server, for the second it sets isInitialized.
WsOpen(c) ==
    /\ UNCHANGED <<voice, services>>
    /\ c \in 1..Len(conns)
    /\ conns[c].ws = "CONNECTING"
    /\ LET p == conns[c].peer
           initial == conns[c].origin = "initial"
           opened == [conns[c] EXCEPT
                        !.ws = "OPEN",
                        !.isConnected = TRUE,
                        !.sent = SentOnOpen(@),
                        !.promise = "resolved"]
           cs1 == [conns EXCEPT ![c] = opened]
           startDeepL == initial /\ p = "elevenlabs"
       IN  /\ startDeepL => CanCreateConn
           /\ conns' = IF startDeepL
                       THEN Append(cs1, NewConnection("deepl", "initial"))
                       ELSE cs1
           /\ connections' = SetConnection(connections, p, c)
           /\ initPc' = IF ~initial THEN initPc
                        ELSE IF p = "elevenlabs" THEN "deepl" ELSE "done"
           /\ isInitialized' = IF initial /\ p = "deepl" THEN TRUE ELSE isInitialized
           /\ failedAttempts' = [failedAttempts EXCEPT ![p] = 0]
    /\ UNCHANGED <<calls, timers, windowEvents, dropped, ping>>

\* The calls issued on connection c whose promise is not settled.
PendingOn(c) ==
    {k \in DOMAIN calls : calls[k].conn = c /\ calls[k].outcome = "pending"}

\* ws.onclose, line 89: connection.isConnected = false, on the WebSocket
\* whose readyState is now CLOSED.
OnCloseStillConnected(cn, pending) ==
    [cn EXCEPT !.ws = "CLOSED", !.pendingAtClose = pending]

OnClose(cn, pending) ==
    [cn EXCEPT !.ws = "CLOSED", !.isConnected = FALSE,
               !.pendingAtClose = pending]

\* The WebSocket closes.  A failure (always the case while CONNECTING) fires
\* error and then close in one task: ws.onerror rejects the promise, the
\* rejection handler runs (initialize() rethrows; the catch of
\* scheduleReconnect schedules a reconnect), then ws.onclose clears
\* isConnected and schedules a reconnect.  A clean closure fires close only.
WsClose(c, withError) ==
    /\ UNCHANGED <<voice, services>>
    /\ c \in 1..Len(conns)
    /\ conns[c].ws \in {"CONNECTING", "OPEN", "CLOSING"}
    /\ conns[c].ws = "CONNECTING" => withError
    /\ LET p == conns[c].peer
           rejected == withError /\ conns[c].promise = "pending"
           n == IF rejected THEN failedAttempts[p] + 1 ELSE failedAttempts[p]
           viaCatch == rejected /\ conns[c].origin = "reconnect"
       IN  /\ conns' = [conns EXCEPT
                          ![c] = OnClose([@ EXCEPT !.promise = IF rejected
                                                               THEN "rejected"
                                                               ELSE @],
                                         PendingOn(c))]
           /\ initPc' = IF rejected /\ conns[c].origin = "initial"
                        THEN "failed" ELSE initPc
           /\ failedAttempts' = [failedAttempts EXCEPT ![p] = n]
           /\ \E pos \in TimerPositions(timers, RETRY_DELAY) :
                timers' = InsertAll(timers, pos, RetryTimers(p, c, n, viaCatch))
    /\ UNCHANGED <<connections, calls, isInitialized, windowEvents, dropped,
                   ping>>

\* A frame that is neither the response to a pending call nor a notification
\* with a method handleMCPNotification knows is recorded, with the place of
\* handleMCPMessage that deals with it: "parse" is
\* the catch of JSON.parse (line 137), "noEntry" a frame with an id that no
\* pending entry has, "unknownMethod" the default case of
\* handleMCPNotification (line 150), "nothing" a frame without id and method.
\* A progress or error notification for which nothing was dispatched (evs is
\* what was dispatched) is recorded as "skipped".  calls is the number of
\* calls made before the frame arrived.
DroppedKind(m) ==
    IF ~m.parsable THEN "parse"
    ELSE IF m.method = "other" THEN "unknownMethod"
    ELSE IF m.id # NoId THEN "noEntry"
    ELSE "nothing"

DroppedFrames(p, m, hit, evs) ==
    IF m.parsable /\ m.method \in {"progress", "error"}
    THEN IF evs # << >> THEN << >>
         ELSE <<[server |-> p, why |-> "skipped", calls |-> Len(calls)]>>
    ELSE IF m.parsable /\ hit THEN << >>
    ELSE <<[server |-> p, why |-> DroppedKind(m),
            calls |-> Len(calls)]>>

\* The registered connection of server p marked not connected.
MarkedNotConnected(p) ==
    IF connections[p] = 0 THEN conns
    ELSE [conns EXCEPT ![connections[p]].isConnected = FALSE]

\* handleMCPMessage that gives the connection up on a response whose id has
\* no pending entry.
HandleMCPMessageUnknownIdFatal(p, m) ==
    IF ~m.parsable \/ connections[p] = 0
    THEN [calls |-> calls, conns |-> conns,
          windowEvents |-> windowEvents,
          dropped |-> dropped \o DroppedFrames(p, m, FALSE, << >>)]
    ELSE LET r == connections[p]
             h == conns[r].responseHandlers
             hit == ResponseMatches(h, m.id)
         IN  [calls |-> IF hit
                        THEN Settle(calls, HandlerFor(h, m.id), ResponseOutcome(m))
                        ELSE calls,
              conns |-> IF hit THEN [conns EXCEPT ![r].responseHandlers[m.id] = 0]
                        ELSE IF m.id # NoId /\ m.method = "none"
                             THEN MarkedNotConnected(p) ELSE conns,
              windowEvents |-> DispatchEvent(windowEvents, NotificationEvents(p, m)),
              dropped |-> dropped \o DroppedFrames(p, m, hit,
                                                   NotificationEvents(p, m))]

\* handleMCPMessage that gives the connection up on a frame it cannot parse.
HandleMCPMessageParseFatal(p, m) ==
    IF ~m.parsable \/ connections[p] = 0
    THEN [calls |-> calls, conns |-> MarkedNotConnected(p),
          windowEvents |-> windowEvents,
          dropped |-> dropped \o DroppedFrames(p, m, FALSE, << >>)]
    ELSE LET r == connections[p]
             h == conns[r].responseHandlers
             hit == ResponseMatches(h, m.id)
         IN  [calls |-> IF hit
                        THEN Settle(calls, HandlerFor(h, m.id), ResponseOutcome(m))
                        ELSE calls,
              conns |-> IF hit THEN [conns EXCEPT ![r].responseHandlers[m.id] = 0]
                        ELSE conns,
              windowEvents |-> DispatchEvent(windowEvents, NotificationEvents(p, m)),
              dropped |-> dropped \o DroppedFrames(p, m, hit,
                                                   NotificationEvents(p, m))]

\* handleMCPMessage(serverName, message) with handleMCPNotification: the
\* calls, the connections, the window events and the recorded frames after
\* the frame has been handled.
HandleMCPMessage(p, m) ==
    IF ~m.parsable \/ ConnectionOf(p) = 0
    THEN [calls |-> calls, conns |-> conns,
          windowEvents |-> windowEvents,
          dropped |-> dropped \o DroppedFrames(p, m, FALSE, << >>)]
    ELSE LET r == ConnectionOf(p)
             h == conns[r].responseHandlers
             hit == ResponseMatches(h, m.id)
         IN  [calls |-> IF hit
                        THEN Settle(calls, HandlerFor(h, m.id), ResponseOutcome(m))
                        ELSE calls,
              conns |-> IF hit THEN [conns EXCEPT ![r].responseHandlers[m.id] = 0]
                        ELSE conns,
              windowEvents |-> DispatchEvent(windowEvents, NotificationEvents(p, m)),
              dropped |-> dropped \o DroppedFrames(p, m, hit,
                                                   NotificationEvents(p, m))]

\* The entries of this.connections in the order a for-of loop visits them:
\* a Map keeps the order of the first insertion of its keys, and initialize()
\* connects to elevenlabs before deepl.
PingOrder == <<"elevenlabs", "deepl">>

\* pingServers, lines 409-420, from the i-th entry on until it awaits a ping
\* or returns: an entry that is not connected is reported as disconnected;
\* for a connected one callMCPTool(name, 'ping', {}) registers the handler,
\* sends the request and arms the timeout, and the loop waits.  res are the
\* results so far, requestId the value of generateRequestId(), pos the place
\* of the new timer in the queue.
RECURSIVE PingLoop(_, _, _, _, _, _, _)
PingLoop(i, cl, cs, tq, res, requestId, pos) ==
    IF i > Len(PingOrder)
    THEN [calls |-> cl, conns |-> cs, timers |-> tq,
          ping |-> [pc |-> "done", at |-> 0, call |-> 0, results |-> res]]
    ELSE LET p == PingOrder[i]
             c == connections[p]
             k == Len(cl) + 1
         IN  IF c = 0
             THEN PingLoop(i + 1, cl, cs, tq, res, requestId, pos)
             ELSE IF ~cs[c].isConnected
             THEN PingLoop(i + 1, cl, cs, tq,
                           [res EXCEPT ![p] = "disconnected"], requestId, pos)
             ELSE LET h1 == [cs[c].responseHandlers EXCEPT ![requestId] = k]
                  IN  [calls |-> Append(cl, [peer |-> p, conn |-> c,
                                             id |-> requestId,
                                             outcome |-> "pending"]),
                       conns |-> [cs EXCEPT
                                    ![c].responseHandlers = h1,
                                    ![c].sent =
                                        Append(@, ToolsCallMessage(k, h1, requestId))],
                       timers |-> InsertAt(tq, pos, RequestTimer(k, p)),
                       ping |-> [pc |-> "waiting", at |-> i, call |-> k,
                                 results |-> res]]

\* pingServers, lines 411-416: the status the awaited ping gives.
PingStatusAlwaysHealthy(outcome) == "healthy"

PingStatus(outcome) == IF outcome = "result" THEN "healthy" ELSE "unhealthy"

\* The end of a task that leaves the calls cl, the connections cs and the
\* timers tq.  When the task settled the ping pingServers awaits, the
\* continuation of pingServers runs before the next task: it stores the
\* status of the server and goes on with the next entry.
AfterSettle(cl, cs, tq) ==
    IF ping.pc = "waiting" /\ cl[ping.call].outcome # "pending"
    THEN \E requestId \in GeneratedIds, pos \in TimerPositions(tq, REQUEST_TIMEOUT) :
            LET res == [ping.results EXCEPT
                          ![PingOrder[ping.at]] = PingStatus(cl[ping.call].outcome)]
                r == PingLoop(ping.at + 1, cl, cs, tq, res, requestId, pos)
            IN  /\ calls' = r.calls
                /\ conns' = r.conns
                /\ timers' = r.timers
                /\ ping' = r.ping
                /\ Len(calls') <= MaxCalls
                /\ Size' <= MaxSize
    ELSE /\ calls' = cl
         /\ conns' = cs
         /\ timers' = tq
         /\ UNCHANGED ping

\* ws.onmessage of connection c: a frame arrives on its open WebSocket.
WsMessage(c, m) ==
    /\ UNCHANGED <<voice, services>>
    /\ c \in 1..Len(conns)
    /\ conns[c].ws \in {"OPEN", "CLOSING"}
    /\ CanCreateEvents(Len(NotificationEvents(conns[c].peer, m)))
    /\ LET r == HandleMCPMessage(conns[c].peer, m)
       IN  /\ CanRecordDropped(Len(r.dropped) - Len(dropped))
           /\ windowEvents' = r.windowEvents
           /\ dropped' = r.dropped
           /\ AfterSettle(r.calls, r.conns, timers)
    /\ UNCHANGED <<connections, initPc, isInitialized, failedAttempts>>

\* callMCPTool(serverName, toolName, params); requestId is the value
\* generateRequestId() returns.
CallMCPTool(p, requestId) ==
    /\ UNCHANGED <<voice, services>>
    /\ CanCreateCall
    /\ IF NotConnected(p)
       THEN /\ calls' = Append(calls, [peer |-> p, conn |-> 0, id |-> NoId,
                                       outcome |-> "notConnected"])
            /\ UNCHANGED <<conns, timers>>
       ELSE LET c == connections[p]
                k == Len(calls) + 1
                h1 == [conns[c].responseHandlers EXCEPT ![requestId] = k]
            IN  /\ conns' = [conns EXCEPT
                               ![c].responseHandlers = h1,
                               ![c].sent = Append(@, ToolsCallMessage(k, h1, requestId))]
                /\ calls' = Append(calls, [peer |-> p, conn |-> c, id |-> requestId,
                                           outcome |-> "pending"])
                /\ \E pos \in TimerPositions(timers, REQUEST_TIMEOUT) :
                     timers' = InsertAt(timers, pos, RequestTimer(k, p))
    /\ UNCHANGED <<connections, initPc, isInitialized, windowEvents,
                   failedAttempts, dropped, ping>>

\* performTextToSpeech (p is elevenlabs) and performTranslation (p is deepl):
\* the request goes through callMCPTool (elevenLabsTextToSpeech,
\* deepLTranslate) when MCP is enabled and the service is initialized, and to
\* the direct API otherwise.  The direct API is outside this service; the
\* request is kept in calls with the outcome "direct".
Perform(p, requestId) ==
    IF MCP_ENABLED /\ isInitialized
    THEN CallMCPTool(p, requestId)
    ELSE /\ CanCreateCall
         /\ calls' = Append(calls, [peer |-> p, conn |-> 0, id |-> NoId,
                                    outcome |-> "direct"])
         /\ UNCHANGED <<connections, conns, timers, initPc, isInitialized,
                        windowEvents, failedAttempts, dropped, ping, voice,
                        services>>

\* The timeout callback of callMCPTool, lines 183-188.
RequestTimeout ==
    /\ UNCHANGED <<voice, services>>
    /\ timers # << >>
    /\ Head(timers).kind = "timeout"
    /\ UNCHANGED <<connections, initPc, isInitialized, windowEvents,
                   failedAttempts, dropped>>
    /\ LET k == Head(timers).call
           c == calls[k].conn
           id == calls[k].id
           due == TimeoutApplies(conns[c].responseHandlers, id)
       IN  AfterSettle(IF due THEN Settle(calls, k, "timeout") ELSE calls,
                       IF due THEN [conns EXCEPT ![c].responseHandlers[id] = 0]
                       ELSE conns,
                       Tail(timers))

\* The timer callback of scheduleReconnect up to the promise: a new
\* WebSocket is opened by createMCPConnection.
ReconnectAttempt ==
    /\ UNCHANGED <<voice, services>>
    /\ timers # << >>
    /\ Head(timers).kind = "reconnect"
    /\ CanCreateConn
    /\ conns' = Append(conns, NewConnection(Head(timers).peer, "reconnect"))
    /\ timers' = Tail(timers)
    /\ UNCHANGED <<connections, calls, initPc, isInitialized, windowEvents,
                   failedAttempts, dropped, ping>>

\* pingServers() up to its first await or, when no registered connection is
\* connected, to its return.  One invocation is followed.
PingServers ==
    /\ UNCHANGED <<voice, services>>
    /\ ping.pc = "idle"
    /\ Size < MaxSize
    /\ UNCHANGED <<connections, initPc, isInitialized, windowEvents,
                   failedAttempts, dropped>>
    /\ \E requestId \in GeneratedIds, pos \in TimerPositions(timers, REQUEST_TIMEOUT) :
          LET r == PingLoop(1, calls, conns, timers, ping.results, requestId, pos)
          IN  /\ calls' = r.calls
              /\ conns' = r.conns
              /\ timers' = r.timers
              /\ ping' = r.ping
              /\ Len(calls') <= MaxCalls
              /\ Size' <= MaxSize

\* The owner of the connection object closes its WebSocket: connection.ws
\* is the only handle the service keeps, and ws.close() on it is the only
\* deliberate teardown there is.  readyState becomes CLOSING; the close
\* event (WsClose) follows.
ClientClose(p) ==
    /\ UNCHANGED <<voice, services>>
    /\ connections[p] # 0
    /\ conns[connections[p]].ws = "OPEN"
    /\ CanClose
    /\ conns' = [conns EXCEPT ![connections[p]].ws = "CLOSING",
                              ![connections[p]].deliberate = TRUE]
    /\ UNCHANGED <<connections, calls, timers, initPc, isInitialized,
                   windowEvents, failedAttempts, dropped, ping>>

Next ==
    \/ Initialize
    \/ \E c \in 1..MaxConns : WsOpen(c)
    \/ \E c \in 1..MaxConns, e \in BOOLEAN : WsClose(c, e)
    \/ \E c \in 1..MaxConns, m \in Messages : WsMessage(c, m)
    \/ \E p \in Peers, id \in GeneratedIds : CallMCPTool(p, id)
    \/ \E p \in Peers, id \in GeneratedIds : Perform(p, id)
    \/ RequestTimeout
    \/ ReconnectAttempt
    \/ PingServers
    \/ \E p \in Peers : ClientClose(p)

Spec == Init /\ [][Next]_vars

\* ------------------------------------------------------- VoiceChatNetwork

\* localStorage.getItem('voiceChat_userId'), or the id initializeUser makes.
OwnId == "VC_ME"

\* initializeApp(): when every step succeeds the speech recognition exists,
\* mcpAvailable tells whether use_mcp_tool is defined, the user has an id,
\* the listeners are set up and isInitialized is set; when the speech
\* recognition is not supported, initializeSpeechRecognition throws and
\* nothing of this happens.  No step waits for an event: mcpQuery returns
\* at once.
InitializeApp(ok, mcp) ==
    /\ voice.app = "starting"
    /\ voice' = IF ok
                THEN [voice EXCEPT !.app = "ready", !.isInitialized = TRUE,
                                   !.recognition = "idle",
                                   !.mcpAvailable = mcp,
                                   !.currentUserId = OwnId]
                ELSE [voice EXCEPT !.app = "failed"]
    /\ UNCHANGED <<mcpVars, services>>

\* stopRecording() without its first line.
StopRecordingUnguarded(v) ==
    [v EXCEPT
        !.lastCall = IF v.isRecording THEN "stop" ELSE "stopIgnored",
        !.isRecording = FALSE,
        !.isAnalyzing = FALSE,
        !.recorders = IF v.recorders # << >> /\ v.recorders[Len(v.recorders)] = "recording"
                      THEN [v.recorders EXCEPT ![Len(v.recorders)] = "inactive"]
                      ELSE v.recorders,
        !.recognition = IF v.recognition = "running" THEN "ending"
                        ELSE v.recognition]

\* stopRecording(), lines 360-387, applied to the state v.
StopRecording(v) ==
    IF ~v.isRecording THEN [v EXCEPT !.lastCall = "stopIgnored"]
    ELSE [v EXCEPT
            !.lastCall = "stop",
            !.isRecording = FALSE,
            !.isAnalyzing = FALSE,
            !.recorders = IF v.recorders # << >> /\ v.recorders[Len(v.recorders)] = "recording"
                          THEN [v.recorders EXCEPT ![Len(v.recorders)] = "inactive"]
                          ELSE v.recorders,
            !.recognition = IF v.recognition = "running" THEN "ending"
                            ELSE v.recognition]

\* startRecording(), lines 305-319, up to await getUserMedia.
StartRecording ==
    /\ voice.isRecording \/ ~voice.isInitialized \/ voice.started < MaxStarts
    /\ voice' = IF voice.isRecording \/ ~voice.isInitialized
                THEN [voice EXCEPT !.lastCall = "startIgnored"]
                ELSE [voice EXCEPT !.lastCall = "start",
                                   !.isRecording = TRUE,
                                   !.starts = Append(@, "mic"),
                                   !.started = @ + 1]
    /\ UNCHANGED <<mcpVars, services>>

\* A call of stopRecording() from outside: the release of the button.
ReleaseButton ==
    /\ voice' = StopRecording(voice)
    /\ UNCHANGED <<mcpVars, services>>

RemoveAt(sq, i) == SubSeq(sq, 1, i - 1) \o SubSeq(sq, i + 1, Len(sq))

\* startRecording(), lines 331-351, on the state v: the new MediaRecorder
\* becomes this.mediaRecorder and is started, then recognition.start() is
\* called, which throws when the recognition is not idle; the catch calls
\* stopRecording().
RecorderSetUp(v) ==
    LET v1 == [v EXCEPT !.recorders = Append(@, "recording")]
    IN  IF v1.recognition = "idle"
        THEN [v1 EXCEPT !.recognition = "running", !.heard = FALSE]
        ELSE StopRecording(v1)

\* The getUserMedia of the i-th waiting startRecording() resolves; then
\* voiceAnalyzer.startAnalysis(stream) returns at once when the analyzer is
\* analyzing, and asks for the microphone itself otherwise.
MicrophoneGranted(i) ==
    /\ i \in DOMAIN voice.starts
    /\ voice.starts[i] = "mic"
    /\ voice' = IF voice.isAnalyzing
                THEN RecorderSetUp([voice EXCEPT !.starts = RemoveAt(@, i)])
                ELSE [voice EXCEPT !.starts[i] = "analysis"]
    /\ UNCHANGED <<mcpVars, services>>

\* The getUserMedia of voiceAnalyzer.startAnalysis resolves, the analyzer
\* is analyzing and startRecording() goes on.
AnalysisStarted(i) ==
    /\ i \in DOMAIN voice.starts
    /\ voice.starts[i] = "analysis"
    /\ voice' = RecorderSetUp([voice EXCEPT !.starts = RemoveAt(@, i),
                                            !.isAnalyzing = TRUE])
    /\ UNCHANGED <<mcpVars, services>>

\* A getUserMedia of the i-th waiting startRecording() is rejected: the
\* catch, lines 353-357, calls stopRecording().
MicrophoneDenied(i) ==
    /\ i \in DOMAIN voice.starts
    /\ voice' = StopRecording([voice EXCEPT !.starts = RemoveAt(@, i)])
    /\ UNCHANGED <<mcpVars, services>>

\* The speech recognition ends (a result, silence, an error or abort()):
\* recognition.onend, lines 105-108, calls stopRecording().
RecognitionEnds ==
    /\ voice.recognition \in {"running", "ending"}
    /\ voice' = StopRecording([voice EXCEPT !.recognition = "idle"])
    /\ UNCHANGED <<mcpVars, services>>

\* The timer i of VoiceChatNetwork is due: every timer armed before it with
\* a delay that is not longer has fired.
Due(tq, i) ==
    /\ i \in DOMAIN tq
    /\ \A j \in 1..(i - 1) : tq[j].delay > tq[i].delay

\* translateMessage(), lines 416-439, on the state v: translateText returns
\* the text itself when the detected language is the target language, and
\* waits for the timer of mockTranslate otherwise.
TranslateMessage(v, same) ==
    IF same
    THEN [v EXCEPT !.currentMessage.translated = v.currentMessage.original]
    ELSE [v EXCEPT !.timers = Append(@, [kind |-> "translate",
                                         text |-> v.currentMessage.original,
                                         delay |-> TRANSLATE_DELAY])]

\* recognition.onresult: handleSpeechResult(transcript), lines 389-403, with
\* the next transcript.
RecognitionResult(same) ==
    /\ voice.recognition = "running"
    /\ ~voice.heard
    /\ voice.messages < MaxMessages
    /\ same \/ Len(voice.timers) < MaxVoiceTimers
    /\ voice' = TranslateMessage(
                    [voice EXCEPT !.heard = TRUE,
                                  !.messages = @ + 1,
                                  !.currentMessage.original = voice.messages + 1],
                    same)
    /\ UNCHANGED <<mcpVars, services>>

\* The timer of mockTranslate fires: translateMessage() goes on at line 427
\* and writes the translation into the message that is current now.
TranslationArrives(i) ==
    /\ Due(voice.timers, i)
    /\ voice.timers[i].kind = "translate"
    /\ voice' = [voice EXCEPT !.timers = RemoveAt(@, i),
                              !.currentMessage.translated = voice.timers[i].text]
    /\ UNCHANGED <<mcpVars, services>>

\* clearMessage(), lines 474-480, on the state v.
ClearMessage(v) ==
    [v EXCEPT !.currentMessage = [original |-> 0, translated |-> 0]]

\* The click on the clear button.
ClearButton ==
    /\ voice.app = "ready"
    /\ voice' = ClearMessage(voice)
    /\ UNCHANGED <<mcpVars, services>>

\* The values of the input field friendIdInput: an id with or without blanks
\* around it.
FriendInputs == [blanks : BOOLEAN, id : {"", OwnId, "VC_FRIEND"}]

\* String.prototype.trim
Trim(input) == input.id

\* The outcomes of mcpQuery('run_sql', ...) its callers provide for.  The
\* mcpQuery of lines 714-729 stands for the real query and returns no rows.
QueryOutcomes == {"rows", "empty", "throws"}

\* The outcomes of a query that inserts: its rows are not looked at.
InsertOutcomes == {"empty", "throws"}

\* An outcome other than "empty" is drawn only for a query connectToFriend()
\* makes: the lookup when MCP is available and the id is neither empty nor
\* the own id, the insertion when the lookup found the friend.
QueriesMade(input, check, insert) ==
    /\ check = "empty" \/ (/\ voice.mcpAvailable
                            /\ Trim(input) \notin {"", voice.currentUserId})
    /\ insert = "empty" \/ check = "rows"

\* connectToFriend() without the comparison with the own id.
ConnectToFriendUnchecked(input, check, insert) ==
    /\ voice.app = "ready"
    /\ QueriesMade(input, check, insert)
    /\ LET friendId == Trim(input)
           connected == [voice EXCEPT !.isConnected = TRUE,
                                      !.connectedFriendId = friendId]
       IN  voice' = IF friendId = "" THEN voice
                    ELSE IF ~voice.mcpAvailable THEN connected
                    ELSE IF check # "rows" THEN voice
                    ELSE IF insert = "throws" THEN voice
                    ELSE connected
    /\ UNCHANGED <<mcpVars, services>>

\* connectToFriend(), lines 504-575: check is the outcome of the query for
\* the friend, insert the one of the query that stores the connection.
ConnectToFriend(input, check, insert) ==
    /\ voice.app = "ready"
    /\ QueriesMade(input, check, insert)
    /\ LET friendId == Trim(input)
           connected == [voice EXCEPT !.isConnected = TRUE,
                                      !.connectedFriendId = friendId]
       IN  voice' = IF friendId = "" THEN voice
                    ELSE IF friendId = voice.currentUserId THEN voice
                    ELSE IF ~voice.mcpAvailable THEN connected
                    ELSE IF check # "rows" THEN voice
                    ELSE IF insert = "throws" THEN voice
                    ELSE connected
    /\ UNCHANGED <<mcpVars, services>>

\* sendVoiceMessage(), lines 577-623: outcome is the outcome of the query
\* that inserts the message, drawn when the query is made.
SendVoiceMessage(outcome) ==
    /\ voice.app = "ready"
    /\ LET refused == ~voice.isConnected \/ voice.currentMessage.translated = 0
           stored == [voice EXCEPT !.sent = Append(@,
                         [to |-> voice.connectedFriendId,
                          original |-> voice.currentMessage.original,
                          translated |-> voice.currentMessage.translated])]
           armed(v) == [v EXCEPT !.timers = Append(@,
                         [kind |-> "clear",
                          text |-> voice.currentMessage.translated,
                          delay |-> CLEAR_DELAY])]
       IN  /\ outcome = "empty" \/ (voice.mcpAvailable /\ ~refused)
           /\ refused \/ Len(voice.timers) < MaxVoiceTimers
           /\ refused \/ ~voice.mcpAvailable \/ Len(voice.sent) < MaxSent
           /\ voice' = IF refused THEN voice
                        ELSE IF ~voice.mcpAvailable THEN armed(voice)
                        ELSE IF outcome = "throws" THEN voice
                        ELSE armed(stored)
    /\ UNCHANGED <<mcpVars, services>>

\* The timer of sendVoiceMessage fires, line 615.
DelayedClear(i) ==
    /\ Due(voice.timers, i)
    /\ voice.timers[i].kind = "clear"
    /\ voice' = ClearMessage([voice EXCEPT !.timers = RemoveAt(@, i)])
    /\ UNCHANGED <<mcpVars, services>>

VoiceNext ==
    \/ \E ok, mcp \in BOOLEAN : InitializeApp(ok, mcp)
    \/ \E same \in BOOLEAN : RecognitionResult(same)
    \/ \E i \in 1..MaxVoiceTimers : TranslationArrives(i)
    \/ ClearButton
    \/ \E input \in FriendInputs, check \in QueryOutcomes, insert \in InsertOutcomes :
          ConnectToFriend(input, check, insert)
    \/ \E outcome \in InsertOutcomes : SendVoiceMessage(outcome)
    \/ \E i \in 1..MaxVoiceTimers : DelayedClear(i)
    \/ StartRecording
    \/ ReleaseButton
    \/ \E i \in 1..MaxStarts : MicrophoneGranted(i)
    \/ \E i \in 1..MaxStarts : AnalysisStarted(i)
    \/ \E i \in 1..MaxStarts : MicrophoneDenied(i)
    \/ RecognitionEnds

VoiceSpec == Init /\ [][VoiceNext]_vars

\* ------------------------------------ DeepLService and ElevenLabsService

\* The constructor: apiKey is read from window.MCPhonyConfig.
NewService(s, key) ==
    /\ ~services[s].made
    /\ services' = [services EXCEPT ![s] = [NoService EXCEPT !.made = TRUE,
                                                              !.apiKey = key]]
    /\ UNCHANGED <<mcpVars, voice>>

\* The requests initialize() sends one after the other: loadSupportedLanguages
\* and checkUsage of DeepLService, loadVoices of ElevenLabsService.
InitRequests(s) ==
    IF s = "DeepLService" THEN <<"languages", "usage">> ELSE <<"voices">>

\* The method that guards itself with initialize(), and the request it sends.
GuardedMethod(s) ==
    IF s = "DeepLService" THEN "translateText" ELSE "textToSpeech"

WorkRequest(s) ==
    IF s = "DeepLService" THEN "translate" ELSE "text-to-speech"

\* fetch(...) on the service o: the request is sent with o.apiKey and the
\* call waits for the response.  step is the position in InitRequests, 0 for
\* the request of the method itself.
Fetch(o, method, step, endpoint) ==
    [o EXCEPT !.pending = Append(@, [method |-> method, step |-> step]),
              !.requests = @ \cup {[endpoint |-> endpoint,
                                     initialized |-> o.isInitialized]}]

\* The first line of initialize(): the key is missing or the placeholder.
NotConfigured(o) == o.apiKey = "" \/ o.apiKey = "placeholder"

\* initialize() up to its first fetch, called by method on the service s.
BeginInitialize(s, method) ==
    LET o == services[s]
    IN  IF NotConfigured(o)
        THEN [o EXCEPT !.thrown = "not configured"]
        ELSE Fetch(o, method, 1, InitRequests(s)[1])

\* A call of initialize().
ServiceInitialize(s) ==
    /\ services[s].made
    /\ Len(services[s].pending) < MaxPending
    /\ services' = [services EXCEPT ![s] = BeginInitialize(s, "initialize")]
    /\ UNCHANGED <<mcpVars, voice>>

\* A call of translateText() or textToSpeech() up to its first fetch.
CallGuardedMethod(s) ==
    /\ services[s].made
    /\ Len(services[s].pending) < MaxPending
    /\ services' = [services EXCEPT ![s] =
                       IF ~services[s].isInitialized
                       THEN BeginInitialize(s, GuardedMethod(s))
                       ELSE Fetch(services[s], GuardedMethod(s), 0, WorkRequest(s))]
    /\ UNCHANGED <<mcpVars, voice>>

\* A call of DeepLService.detectLanguage(), lines 139-170.
DetectLanguage ==
    LET s == "DeepLService"
    IN  /\ services[s].made
        /\ Len(services[s].pending) < MaxPending
        /\ services' = [services EXCEPT ![s] =
                           Fetch(services[s], "detectLanguage", 0, "translate")]
        /\ UNCHANGED <<mcpVars, voice>>

\* The fetch the i-th waiting call of the service s made is settled, ok
\* telling whether the response is there and response.ok holds: the call
\* goes on to its next fetch, to its return or to its throw.
FetchSettles(s, i, ok) ==
    /\ i \in DOMAIN services[s].pending
    /\ LET o == services[s]
           call == o.pending[i]
           rest == [o EXCEPT !.pending = RemoveAt(@, i)]
           steps == InitRequests(s)
       IN  services' = [services EXCEPT ![s] =
              IF ~ok
              THEN IF call.method = "detectLanguage" THEN rest
                   ELSE [rest EXCEPT !.thrown = "request failed"]
              ELSE IF call.step = 0 THEN rest
              ELSE IF call.step < Len(steps)
                   THEN Fetch(rest, call.method, call.step + 1, steps[call.step + 1])
              ELSE LET ready == [rest EXCEPT !.isInitialized = TRUE]
                   IN  IF call.method = "initialize" THEN ready
                       ELSE Fetch(ready, call.method, 0, WorkRequest(s))]
    /\ UNCHANGED <<mcpVars, voice>>

ServiceNext ==
    \/ \E s \in ServiceNames, key \in ApiKeys : NewService(s, key)
    \/ \E s \in ServiceNames : ServiceInitialize(s)
    \/ \E s \in ServiceNames : CallGuardedMethod(s)
    \/ DetectLanguage
    \/ \E s \in ServiceNames, i \in 1..MaxPending, ok \in BOOLEAN :
          FetchSettles(s, i, ok)

ServiceSpec == Init /\ [][ServiceNext]_vars

\* The close event of a WebSocket the client asked to close.
CloseCompletes(c) ==
    /\ c \in 1..Len(conns)
    /\ conns[c].ws = "CLOSING"
    /\ WsClose(c, FALSE)

\* The scheduling the reconnection relies on: the browser runs every timer
\* callback that is due, a WebSocket that is connecting to a reachable
\* server opens, and a closure the client asked for is reported.
LiveSpec ==
    /\ Spec
    /\ WF_vars(ReconnectAttempt)
    /\ WF_vars(RequestTimeout)
    /\ \A c \in 1..MaxConns : WF_vars(WsOpen(c)) /\ WF_vars(CloseCompletes(c))

\* ------------------------------------------------------------ properties

Accepted(k) == calls[k].conn # 0
Completed(k) == calls[k].outcome \in {"result", "remoteError", "timeout"}

\* This step runs the timeout callback of call k.
TimeoutRuns(k) ==
    /\ timers # << >>
    /\ Head(timers).kind = "timeout"
    /\ Head(timers).call = k
    /\ \A i \in DOMAIN timers' : timers'[i] # Head(timers)

\* This step handles a frame that carries the id of call k and arrived from
\* the server call k was sent to.
OwnResponseArrives(k) ==
    \E c \in DOMAIN conns, m \in Messages :
        /\ conns[c].peer = calls[k].peer
        /\ m.parsable /\ m.id = calls[k].id
        /\ WsMessage(c, m)

C2_StaleTransportCompletesNothing ==
    [][\A k \in DOMAIN calls, c \in DOMAIN conns, m \in Messages :
         ( /\ Accepted(k) /\ calls[k].outcome = "pending"
           /\ c < calls[k].conn
           /\ conns[c].peer = calls[k].peer
           /\ WsMessage(c, m) )
         => calls'[k].outcome = "pending"]_vars

\* The reconnect timer armed by the closure of connection c has run.
RetryFired(c) ==
    /\ conns[c].ws = "CLOSED"
    /\ ~ \E i \in DOMAIN timers :
           timers[i].kind = "reconnect" /\ timers[i].from = c

\* C3: once the first reconnection attempt after a closure has fired, every
\* call that was pending on the closed connection has been completed with a
\* connection-lost failure.
C3_ConnectionLostBeforeRetry ==
    \A c \in DOMAIN conns :
        RetryFired(c) =>
            \A k \in conns[c].pendingAtClose : calls[k].outcome = "connectionLost"

\* C4: the id given to a new call differs from the id of every entry pending
\* on the connection, and the entry is stored before the request is sent.
C4_FreshIdRegisteredBeforeSend ==
    [][\A p \in Peers :
         (Len(calls') = Len(calls) + 1 /\ calls'[Len(calls')].peer = p
          /\ calls'[Len(calls')].conn # 0)
         => LET c == connections[p]
                id == calls'[Len(calls')].id
            IN  /\ ~Has(conns[c].responseHandlers, id)
                /\ conns'[c].sent[Len(conns'[c].sent)].registered]_vars

\* C5: every accepted call is completed; at the latest its own timeout
\* completes it, so no call is pending after its timeout callback has run.
C5_AcceptedCallsComplete ==
    \A k \in DOMAIN calls :
        (Accepted(k) /\ ~ \E i \in DOMAIN timers :
                            timers[i].kind = "timeout" /\ timers[i].call = k)
        => Completed(k)

\* The server has a registered connection that is marked connected.
PeerReady(p) ==
    /\ connections[p] \in DOMAIN conns
    /\ conns[connections[p]].isConnected

\* C6: a call to a server that is not Ready fails at once as not connected;
\* it registers no handler, arms no timer and sends nothing.  (A request
\* that went to the direct API is no call to the server.)
C6_NotReadyFailsFast ==
    [][\A p \in Peers :
         (Len(calls') = Len(calls) + 1 /\ calls'[Len(calls')].peer = p
          /\ calls'[Len(calls')].outcome # "direct"
          /\ ~PeerReady(p))
         => /\ calls'[Len(calls')].outcome = "notConnected"
            /\ conns' = conns
            /\ timers' = timers]_vars

\* A call was refused although a connection is registered for its server
\* (that connection is closed), after an earlier call had been accepted.
C6_Witness ==
    \E j, k \in DOMAIN calls :
        /\ j < k
        /\ calls[j].peer = calls[k].peer
        /\ Accepted(j)
        /\ calls[k].outcome = "notConnected"
        /\ connections[calls[k].peer] # 0

\* Reconnections of server p that are scheduled or being attempted.
ArmedRetries(p) ==
    {i \in DOMAIN timers : timers[i].kind = "reconnect" /\ timers[i].peer = p}
AttemptsInProgress(p) ==
    {c \in DOMAIN conns : /\ conns[c].peer = p
                          /\ conns[c].origin = "reconnect"
                          /\ conns[c].ws = "CONNECTING"}

\* C7: per server at most one reconnection is scheduled or being attempted.
C7_AtMostOneRetry ==
    \A p \in Peers :
        Cardinality(ArmedRetries(p)) + Cardinality(AttemptsInProgress(p)) <= 1

\* The delay the exponential policy asks for after n failed attempts.
BackoffDelay(n) == Min(1000 * 2^n, 30000)

C9_TimeoutCompletesUnanswered ==
    [][\A k \in DOMAIN calls :
         (TimeoutRuns(k) /\ calls[k].outcome = "pending")
         => /\ calls'[k].outcome = "timeout"
            /\ ~Has(conns'[calls[k].conn].responseHandlers, calls[k].id)]_vars

\* C10: a call keeps the outcome it got first, and the timeout of a call that
\* its response completed changes no state when it runs.
C10_LoserIsNoOp ==
    [][\A k \in DOMAIN calls :
         Completed(k) =>
            /\ calls'[k] = calls[k]
            /\ TimeoutRuns(k) => (conns' = conns /\ calls' = calls)]_vars

\* C11: no timeout timer is armed for a call that its response completed.
C11_TimerCancelledOnResponse ==
    \A i \in DOMAIN timers :
        timers[i].kind = "timeout" =>
            calls[timers[i].call].outcome \notin {"result", "remoteError"}

\* C12: when the first connection attempt to one server has failed, the
\* client still connects to every other server.
C12_PeerFailureIsolated ==
    \A c \in DOMAIN conns :
        (conns[c].origin = "initial" /\ conns[c].promise = "rejected") =>
            \A q \in Peers \ {conns[c].peer} :
                \E d \in DOMAIN conns : conns[d].peer = q

\* Server p has a WebSocket that is still connecting.
PeerConnecting(p) ==
    \E c \in DOMAIN conns : conns[c].peer = p /\ conns[c].ws = "CONNECTING"

\* C13: no transport is opened for a server that is Ready or Connecting.
C13_ConnectIdempotent ==
    [][\A p \in Peers :
         (Len(conns') > Len(conns) /\ conns'[Len(conns')].peer = p)
         => ~(PeerReady(p) \/ PeerConnecting(p))]_vars

\* This step runs a reconnect timer of server p.
RetryRuns(p) ==
    /\ timers # << >>
    /\ Head(timers).kind = "reconnect"
    /\ Head(timers).peer = p
    /\ timers' = Tail(timers)

\* C14: once a closure the client asked for is complete, no reconnection
\* attempt for that server fires and every call that was pending at the close
\* has failed as client-closed.
C14_DeliberateCloseIsFinal ==
    [][\A c \in DOMAIN conns :
         (conns[c].deliberate /\ conns[c].ws = "CLOSED") =>
            /\ ~RetryRuns(conns[c].peer)
            /\ \A k \in conns[c].pendingAtClose :
                   calls[k].outcome = "clientClosed"]_vars

\* C15: no frame is handled both as a response and as a notification: the
\* step that completes a call dispatches no window event.
C15_RoutedToOnePlace ==
    [][windowEvents' # windowEvents => (calls' = calls /\ conns' = conns)]_vars

\* The frame recorded as dropped in this step, if any.
DropsFrame(why) ==
    /\ Len(dropped') = Len(dropped) + 1
    /\ dropped'[Len(dropped')].why = why

\* C16: a response whose id has no pending entry on the registered connection
\* completes no call and changes neither the pending entries nor the
\* connection, which stays connected.
C16_UnmatchedResponseDropped ==
    [][DropsFrame("noEntry") =>
         /\ calls' = calls
         /\ conns' = conns
         /\ connections' = connections
         /\ timers' = timers
         /\ windowEvents' = windowEvents]_vars

\* A response without pending entry was dropped and a call made afterwards
\* to the same server was accepted and answered.
C16_Witness ==
    \E i \in DOMAIN dropped, k \in DOMAIN calls :
        /\ dropped[i].why = "noEntry"
        /\ k > dropped[i].calls
        /\ calls[k].peer = dropped[i].server
        /\ calls[k].outcome = "result"

\* C17: a frame that cannot be parsed completes no call, dispatches no
\* notification and leaves the pending entries and the connection as they are.
C17_UnparsableDropped ==
    [][DropsFrame("parse") =>
         /\ calls' = calls
         /\ conns' = conns
         /\ connections' = connections
         /\ timers' = timers
         /\ windowEvents' = windowEvents]_vars

\* An unparsable frame was dropped while a call was pending, and the call is
\* still pending on a connection that is still connected.
C17_Witness ==
    \E i \in DOMAIN dropped, k \in DOMAIN calls :
        /\ dropped[i].why = "parse"
        /\ k <= dropped[i].calls
        /\ calls[k].peer = dropped[i].server
        /\ calls[k].outcome = "pending"
        /\ PeerReady(calls[k].peer)
        /\ connections[calls[k].peer] = calls[k].conn
        /\ Has(conns[calls[k].conn].responseHandlers, calls[k].id)

\* The tools/call requests sent for call k, over all connections cs.
RequestsSent(cs, k) ==
    UNION {{<<c, i>> : i \in {j \in DOMAIN cs[c].sent : cs[c].sent[j].call = k}} :
           c \in DOMAIN cs}

\* This step handles a frame with an error member that carries the id of
\* call k.
ErrorResponseArrives(k) ==
    \E c \in DOMAIN conns, m \in Messages :
        /\ m.parsable /\ m.error /\ m.id = calls[k].id
        /\ WsMessage(c, m)

\* C18: a response with an error fails its call with the remote error, and
\* the request of a call that failed so is never sent again.
C18_RemoteErrorNotRetried ==
    [][\A k \in DOMAIN calls :
         /\ (calls[k].outcome = "pending"
             /\ calls'[k].outcome \in {"result", "remoteError"}
             /\ ErrorResponseArrives(k))
            => calls'[k].outcome = "remoteError"
         /\ calls[k].outcome = "remoteError"
            => /\ calls'[k] = calls[k]
               /\ Cardinality(RequestsSent(conns', k)) = 1]_vars

\* A call failed with the remote error after its single request.
C18_Witness ==
    \E k \in DOMAIN calls :
        /\ calls[k].outcome = "remoteError"
        /\ Cardinality(RequestsSent(conns, k)) = 1

\* C19: a connection that opened has sent initialize first and only once,
\* every later request is a tools/call, and a connection that did not open
\* has sent nothing.
C19_InitializeFirstAndOnce ==
    \A c \in DOMAIN conns :
        LET s == conns[c].sent
        IN  IF conns[c].promise = "resolved"
            THEN /\ Len(s) >= 1
                 /\ s[1].method = "initialize"
                 /\ \A i \in 2..Len(s) : s[i].method = "tools/call"
            ELSE s = << >>

\* A connection sent initialize and then a tools/call request.
C19_Witness ==
    \E c \in DOMAIN conns :
        /\ Len(conns[c].sent) >= 2
        /\ conns[c].sent[1].method = "initialize"
        /\ conns[c].sent[2].method = "tools/call"

Lost(c) == c \in DOMAIN conns /\ conns[c].ws = "CLOSED"

\* The server of the lost connection c has a registered connection that was
\* opened after c, whose WebSocket is open and which is marked connected, so
\* that callMCPTool accepts calls to the server.
Reconnected(c) ==
    LET p == conns[c].peer
    IN  /\ connections[p] > c
        /\ conns[connections[p]].ws = "OPEN"
        /\ conns[connections[p]].isConnected
        /\ ~NotConnected(p)

\* No further WebSocket can be created in this behaviour and none is
\* connecting to server p.
AttemptsExhausted(p) == ~CanCreateConn /\ ~PeerConnecting(p)

\* C21: after a connection is lost, as long as further attempts can be made,
\* a reconnection attempt eventually opens, the registered connection of the
\* server becomes the newly opened one and is marked connected, and calls to
\* the server are accepted again.
C21_ReconnectEventuallySucceeds ==
    \A c \in 1..MaxConns :
        Lost(c) ~> (Lost(c) /\ (Reconnected(c) \/ AttemptsExhausted(conns[c].peer)))

\* A connection was lost, an attempt to reconnect failed and a later attempt
\* opened and is registered and connected.
C21_Witness ==
    \E c, d \in DOMAIN conns :
        /\ c < d
        /\ conns[c].peer = conns[d].peer
        /\ conns[c].origin = "initial" /\ conns[c].promise = "resolved"
        /\ Lost(c)
        /\ conns[d].origin = "reconnect" /\ conns[d].promise = "rejected"
        /\ Reconnected(d)

\* C22: a notification whose method is neither progress nor error is
\* ignored: nothing is sent, no window event is dispatched, and the
\* connections, their pending entries and the calls stay as they are.
C22_UnknownNotificationIgnored ==
    [][DropsFrame("unknownMethod") =>
         /\ windowEvents' = windowEvents
         /\ \A c \in DOMAIN conns : conns'[c] = conns[c]
         /\ calls' = calls
         /\ connections' = connections]_vars

\* A notification with an unknown method arrived while a call was pending,
\* and the call is still pending with its entry in place.
C22_Witness ==
    \E i \in DOMAIN dropped, k \in DOMAIN calls :
        /\ dropped[i].why = "unknownMethod"
        /\ k <= dropped[i].calls
        /\ calls[k].peer = dropped[i].server
        /\ calls[k].outcome = "pending"
        /\ Has(conns[calls[k].conn].responseHandlers, calls[k].id)

\* windowEvents after a step: what was dispatched before, in the same order,
\* followed by at most one new event.
DispatchedInOrder ==
    /\ Len(windowEvents') \in {Len(windowEvents), Len(windowEvents) + 1}
    /\ SubSeq(windowEvents', 1, Len(windowEvents)) = windowEvents

ClosureReported(c) == conns[c].ws # "CLOSED" /\ conns'[c].ws = "CLOSED"

\* C24: whenever a connection fails or closes, after any number of
\* consecutive failed attempts, another attempt is scheduled after the delay
\* RETRY_DELAY; RETRY_ATTEMPTS does not stop the retries.
C24_RetriesWithoutLimit ==
    [][\A c \in DOMAIN conns :
         ClosureReported(c) =>
            \E i \in DOMAIN timers' :
                /\ timers'[i].kind = "reconnect"
                /\ timers'[i].from = c
                /\ timers'[i].peer = conns[c].peer
                /\ timers'[i].delay = RETRY_DELAY]_vars

\* After RETRY_ATTEMPTS consecutive failed attempts to connect to a server a
\* further attempt is being made.
C24_Witness ==
    \E p \in Peers :
        /\ failedAttempts[p] >= RETRY_ATTEMPTS
        /\ PeerConnecting(p)

\* The WebSockets to server p that are open.
OpenTransports(p) ==
    {c \in DOMAIN conns : conns[c].peer = p /\ conns[c].ws \in {"OPEN", "CLOSING"}}

\* C25: a server has at most one open transport at any time, and that one is
\* its registered connection.
C25_OneOpenTransport ==
    \A p \in Peers :
        /\ Cardinality(OpenTransports(p)) <= 1
        /\ OpenTransports(p) \subseteq {connections[p]}

\* C26: the timeout of a call that has been completed changes nothing when
\* it runs: every other call keeps its state and its pending entry, also a
\* later call on the same connection that was given the same id.
C26_StaleTimeoutChangesNothing ==
    [][\A k \in DOMAIN calls :
         (TimeoutRuns(k) /\ Completed(k)) =>
            \A j \in DOMAIN calls \ {k} :
                /\ calls'[j] = calls[j]
                /\ (Accepted(j) /\ calls[j].outcome = "pending"
                    /\ Has(conns[calls[j].conn].responseHandlers, calls[j].id))
                   => Has(conns'[calls[j].conn].responseHandlers, calls[j].id)]_vars

\* This step handles a frame that arrived from a server other than p.
FrameFromOtherPeer(p) ==
    \E c \in DOMAIN conns, m \in Messages :
        conns[c].peer # p /\ WsMessage(c, m)

\* C27: a frame from one server never completes a call that is pending on
\* the other server and never removes a pending entry of the other server's
\* connection, even when the ids are equal.
C27_NoCrossPeerCompletion ==
    [][\A k \in DOMAIN calls :
         ( /\ Accepted(k) /\ calls[k].outcome = "pending"
           /\ \/ calls'[k] # calls[k]
              \/ /\ Has(conns[calls[k].conn].responseHandlers, calls[k].id)
                 /\ ~Has(conns'[calls[k].conn].responseHandlers, calls[k].id) )
         => ~FrameFromOtherPeer(calls[k].peer)]_vars

\* A call is pending on one server while a later call with the same id to
\* the other server has got its response.
C27_Witness ==
    \E j, k \in DOMAIN calls :
        /\ k < j
        /\ Accepted(k) /\ Accepted(j)
        /\ calls[k].peer # calls[j].peer
        /\ calls[k].id = calls[j].id
        /\ calls[k].outcome = "pending"
        /\ Has(conns[calls[k].conn].responseHandlers, calls[k].id)
        /\ calls[j].outcome = "result"

\* C28: performTextToSpeech and performTranslation take the MCP path exactly
\* when MCP is enabled and the service is initialized, and a request that
\* takes the MCP path is not rejected as not connected.
C28_McpPathOnlyWhenConnected ==
    [][\A p \in Peers, id \in GeneratedIds :
         Perform(p, id) =>
            /\ (calls'[Len(calls')].outcome # "direct")
                  <=> (MCP_ENABLED /\ isInitialized)
            /\ calls'[Len(calls')].outcome # "notConnected"]_vars

\* The ping pingServers awaits can still be completed: its handler is in the
\* pending entries of its connection, where a response finds it, or its
\* timeout is still armed.
AwaitedPingCanComplete ==
    LET k == ping.call
    IN  \/ HandlerFor(conns[calls[k].conn].responseHandlers, calls[k].id) = k
        \/ \E i \in DOMAIN timers :
              timers[i].kind = "timeout" /\ timers[i].call = k

\* C29: pingServers always terminates: it never waits for a ping that neither
\* a response nor the timeout can complete any more.
C29_PingServersTerminates ==
    ping.pc = "waiting" => AwaitedPingCanComplete

\* C30: whenever the recording flag is false and no startRecording() is
\* waiting, no media recorder is recording and the speech recognition is not
\* running.
C30_NothingLeftRunning ==
    (~voice.isRecording /\ voice.starts = << >>) =>
        /\ \A i \in DOMAIN voice.recorders : voice.recorders[i] # "recording"
        /\ voice.recognition # "running"

\* The states v and w of the object and of the browser objects are the same.
SameRecording(v, w) == [v EXCEPT !.lastCall = "none"] = [w EXCEPT !.lastCall = "none"]

\* C31: startRecording() changes nothing when a recording is in progress or
\* the app is not initialized; stopRecording() changes nothing when no
\* recording is in progress, be it called by the release of the button or by
\* the end event of the recognition, so that two calls of stopRecording()
\* leave the state one call leaves.
C31_GuardedCallsDoNothing ==
    /\ [][/\ (StartRecording /\ (voice.isRecording \/ ~voice.isInitialized))
              => SameRecording(voice', voice)
          /\ (ReleaseButton /\ ~voice.isRecording)
              => SameRecording(voice', voice)
          /\ (RecognitionEnds /\ ~voice.isRecording)
              => SameRecording(voice', [voice EXCEPT !.recognition = "idle"])]_vars
    /\ [](SameRecording(StopRecording(StopRecording(voice)), StopRecording(voice)))

\* The button was released during a recording and the end event of the
\* recognition came afterwards: its stopRecording() returned at once.
C31_Witness ==
    /\ voice.lastCall = "stopIgnored"
    /\ voice.recognition = "idle"
    /\ voice.recorders # << >>
    /\ \A i \in DOMAIN voice.recorders : voice.recorders[i] = "inactive"

\* C32: when the timer of sendVoiceMessage fires while the current message
\* has a translation that is not the one that was sent, the message is left
\* as it is (stated for the sends that make no query, those without MCP).
C32_ClearsOnlySentMessage ==
    [][\A i \in 1..MaxVoiceTimers :
         (/\ DelayedClear(i)
          /\ ~voice.mcpAvailable
          /\ voice.currentMessage.translated # 0
          /\ voice.currentMessage.translated # voice.timers[i].text)
         => voice'.currentMessage = voice.currentMessage]_vars

\* connectToFriend() is called with an empty id, with the own id, with a
\* friend the query does not find, or one of its queries fails.
ConnectRefused(input, check, insert) ==
    \/ Trim(input) = ""
    \/ Trim(input) = voice.currentUserId
    \/ voice.mcpAvailable /\ (check \in {"empty", "throws"} \/ insert = "throws")

C34_NoRequestBeforeInitialized ==
    /\ [](\A s \in ServiceNames :
            /\ \A r \in services[s].requests :
                  r.endpoint \in {"translate", "text-to-speech"} => r.initialized
            /\ (services[s].made /\ NotConfigured(services[s]))
                  => ~services[s].isInitialized /\ services[s].requests = {})
    /\ [][\A s \in ServiceNames :
            (CallGuardedMethod(s) /\ NotConfigured(services[s]))
            => services'[s] = [services[s] EXCEPT !.thrown = "not configured"]]_vars

====
